---- MODULE Spec2Model ----
(***************************************************************************)
(* Model of homework.py: a polling bot that asks the Practicum homework    *)
(* API for status changes and relays the first homework's verdict to a     *)
(* Telegram chat.  main() is a single sequential loop; the model follows   *)
(* its control flow statement by statement.                                *)
(*                                                                         *)
(* Python values are tagged records, so that values of different Python    *)
(* types can be stored in the same variable and compared.  The Russian     *)
(* string literals of the source are transliterated to ASCII.              *)
(***************************************************************************)
EXTENDS Integers, Sequences, FiniteSets, TLC

(* ---- bounds of the model ---- *)

\* longest homework list in an API response
MaxHomeworks == 2
\* largest integer the clock or the API's current_date takes
MaxDate == 2

(* ---- Python values ---- *)

PyNone == [t |-> "None"]
PyInt(n) == [t |-> "int", v |-> n]
PyStr(s) == [t |-> "str", v |-> s]
PyList(q) == [t |-> "list", v |-> q]
PyDict(f) == [t |-> "dict", v |-> f]

\* a local name that has not been assigned yet
Unbound == [t |-> "unbound"]

IsDict(x) == x.t = "dict"
IsList(x) == x.t = "list"

\* key in d, for a dict d
HasKey(d, k) == k \in DOMAIN d.v

\* d.get(k), for a dict d
DictGet(d, k) == IF HasKey(d, k) THEN d.v[k] ELSE PyNone

\* bool(x)
Truthy(x) ==
    CASE x.t = "None" -> FALSE
      [] x.t = "str" -> x.v # ""
      [] x.t = "int" -> x.v # 0
      [] x.t = "list" -> Len(x.v) > 0
      [] x.t = "dict" -> DOMAIN x.v # {}
      [] OTHER -> FALSE

\* str(x), as an f-string formats a value
Str(x) ==
    CASE x.t = "None" -> "None"
      [] x.t = "str" -> x.v
      [] x.t = "int" -> ToString(x.v)
      [] OTHER -> "?"

(* ---- configuration ---- *)

\* requests.codes.ok
HTTP_OK == 200

\* configs.HOMEWORK_VERDICTS: status code -> verdict sentence
HOMEWORK_VERDICTS ==
    [approved |-> "Rabota proverena: revyueru vsyo ponravilos. Ura!",
     reviewing |-> "Rabota vzyata na proverku revyuerom.",
     rejected |-> "Rabota proverena: u revyuera est zamechaniya."]

\* the exceptions of the program, by class name
NoError == "none"

(* ---- the inputs the environment can produce ---- *)

\* what os.getenv returns for a secret: unset, set to '', set
TokenValues == {PyNone, PyStr(""), PyStr("token")}

\* int(time.time())
Clock == {PyInt(n) : n \in 1..MaxDate}

StatusCodes == {HTTP_OK, 404, 500}

Names == {PyStr("X"), PyNone}
Statuses == {PyStr("approved"), PyStr("reviewing"), PyStr("rejected"),
             PyStr("unknown")}

\* homework records; only the keys the program reads are kept
HomeworkDicts ==
    {PyDict([homework_name |-> n, status |-> s]) : n \in Names, s \in Statuses}
    \cup {PyDict([homework_name |-> PyStr("X")]),
          PyDict([status |-> PyStr("approved")])}

\* a list element need not be a dict
Homeworks == HomeworkDicts \cup {PyInt(0)}

\* the records after the first one
TailHomeworks ==
    {PyDict([homework_name |-> PyStr("Y"), status |-> PyStr("rejected")])}

RECURSIVE Tails(_)
Tails(n) ==
    IF n <= 0 THEN {<<>>}
    ELSE {<<>>} \cup {<<h>> \o q : h \in TailHomeworks, q \in Tails(n - 1)}

HomeworkLists ==
    {<<>>} \cup {<<h>> \o q : h \in Homeworks, q \in Tails(MaxHomeworks - 1)}

\* current_date is an integer in the API's documentation; JSON allows more
Dates == Clock \cup {PyStr("2024-01-01")}

\* the parsed JSON bodies of a 200 response
Responses ==
    {PyDict([homeworks |-> PyList(l), current_date |-> d]) :
        l \in HomeworkLists, d \in Dates}
    \cup {PyDict([homeworks |-> PyList(l)]) : l \in HomeworkLists}
    \cup {PyDict([current_date |-> d]) : d \in Dates}
    \cup {PyDict([homeworks |-> PyNone, current_date |-> d]) : d \in Dates}
    \cup {PyDict(<<>>), PyList(<<>>), PyNone}

\* a response body that is not JSON
NotJson == [t |-> "notjson"]

\* what requests.get can do: raise, or return a response
Network ==
    {[kind |-> "RequestException", code |-> 0, body |-> NotJson]}
    \cup {[kind |-> "response", code |-> c, body |-> NotJson] :
            c \in StatusCodes}
    \cup {[kind |-> "response", code |-> HTTP_OK, body |-> r] : r \in Responses}

(* ---- state ---- *)

VARIABLES
    pc,             \* position of main
    PRACTICUM_TOKEN, TELEGRAM_TOKEN, TELEGRAM_CHAT_ID,
    timestamp,      \* main's cursor
    last_message,   \* main's last sent message
    response,       \* main's local: the value get_api_answer returned
    homeworks,      \* main's local: the value check_response returned
    message,        \* main's local
    error,          \* class of the exception raised in this cycle
    errStage,       \* the call that raised it
    fetched,        \* what requests.get did in this cycle
    status_code,    \* response.status_code
    from_date,      \* the from_date parameter of this cycle's request
    last0,          \* last_message when this cycle started
    parsed,         \* parse_status was called in this cycle
    sendResult,     \* bot.send_message in this cycle: none, ok, failed
    sent_text,      \* the text given to bot.send_message in this cycle
    sleeps,         \* time.sleep calls since the last request
    prevFirst,      \* the previous cycle's homeworks[0], if it had one
    prevSend,       \* the previous cycle's sendResult
    calls,          \* the calls of this iteration of the loop, in order
    delivered,      \* the text of the last bot.send_message that returned
    prev2Sent       \* the text delivered two cycles ago, if any

vars == <<pc, PRACTICUM_TOKEN, TELEGRAM_TOKEN, TELEGRAM_CHAT_ID, timestamp,
          last_message, response, homeworks, message, error, errStage,
          fetched, status_code, from_date, last0, parsed, sendResult,
          sent_text, sleeps, prevFirst, prevSend, calls, delivered,
          prev2Sent>>

env == <<PRACTICUM_TOKEN, TELEGRAM_TOKEN, TELEGRAM_CHAT_ID>>

(* ---- the functions of homework.py ---- *)

Ok(v) == [ok |-> TRUE, val |-> v]
Raise(e) == [ok |-> FALSE, err |-> e]

\* check_tokens with any(tokens) for all(tokens)
check_tokens_Any ==
    \/ Truthy(PRACTICUM_TOKEN)
    \/ Truthy(TELEGRAM_TOKEN)
    \/ Truthy(TELEGRAM_CHAT_ID)

\* check_tokens(): every name of TOKENS is a module global, so the
\* missing_tokens list is always empty; the result is all(tokens)
check_tokens ==
    /\ Truthy(PRACTICUM_TOKEN)
    /\ Truthy(TELEGRAM_TOKEN)
    /\ Truthy(TELEGRAM_CHAT_ID)

\* check_response without the test of the 'current_date' key
check_response_HomeworksOnly(r) ==
    IF /\ IsDict(r)
       /\ HasKey(r, "homeworks")
       /\ IsList(r.v.homeworks)
    THEN Ok(r.v.homeworks)
    ELSE Raise("TypeError")

\* check_response with an error class of its own for each clause
check_response_ErrorPerClause(r) ==
    IF ~IsDict(r) THEN Raise("TypeError")
    ELSE IF \E key \in {"homeworks", "current_date"} : ~HasKey(r, key)
    THEN Raise("KeyError")
    ELSE IF ~IsList(r.v.homeworks) THEN Raise("ValueError")
    ELSE Ok(r.v.homeworks)

\* check_response(response): one condition and one raise for the three
\* clauses, with one message
check_response(r) ==
    IF /\ IsDict(r)
       /\ \A key \in {"homeworks", "current_date"} : HasKey(r, key)
       /\ IsList(r.v.homeworks)
    THEN Ok(r.v.homeworks)
    ELSE Raise("TypeError")

\* status in HOMEWORK_VERDICTS
InVerdicts(status) == status.t = "str" /\ status.v \in DOMAIN HOMEWORK_VERDICTS

\* HOMEWORK_VERDICTS.get(status)
GetVerdict(status) ==
    IF InVerdicts(status) THEN PyStr(HOMEWORK_VERDICTS[status.v]) ELSE PyNone

\* parse_status without the test of the status
parse_status_NoStatusCheck(homework) ==
    IF ~IsDict(homework) THEN Raise("TypeError")
    ELSE IF ~HasKey(homework, "homework_name") \/ ~HasKey(homework, "status")
    THEN Raise("KeyError")
    ELSE Ok("Izmenilsya status proverki raboty \""
            \o Str(homework.v.homework_name) \o "\". "
            \o Str(GetVerdict(homework.v.status)))

\* parse_status that formats the status code in place of the verdict
parse_status_StatusForVerdict(homework) ==
    IF ~IsDict(homework) THEN Raise("TypeError")
    ELSE IF ~HasKey(homework, "homework_name") \/ ~HasKey(homework, "status")
    THEN Raise("KeyError")
    ELSE IF ~InVerdicts(homework.v.status) THEN Raise("ValueError")
    ELSE Ok("Izmenilsya status proverki raboty \""
            \o Str(homework.v.homework_name) \o "\". "
            \o Str(homework.v.status))

\* parse_status(homework): itemgetter raises TypeError on a value that is
\* not subscriptable by a string and KeyError on a missing key; only the
\* KeyError is caught and raised again
parse_status(homework) ==
    IF ~IsDict(homework) THEN Raise("TypeError")
    ELSE IF ~HasKey(homework, "homework_name") \/ ~HasKey(homework, "status")
    THEN Raise("KeyError")
    ELSE IF ~InVerdicts(homework.v.status) THEN Raise("ValueError")
    ELSE Ok("Izmenilsya status proverki raboty \""
            \o Str(homework.v.homework_name) \o "\". "
            \o Str(GetVerdict(homework.v.status)))

\* get_api_answer that raises the same error for a bad status as for a
\* failed request
get_api_answer_OneError(net) ==
    IF net.kind = "RequestException" THEN Raise("TypeError")
    ELSE IF net.code # HTTP_OK THEN Raise("TypeError")
    ELSE IF net.body = NotJson THEN Raise("JSONDecodeError")
    ELSE Ok(net.body)

\* get_api_answer(timestamp), given what the network does: requests.get
\* raises RequestException, or returns a response with a status code and a
\* body.  The handler of RequestException calls the exception instance,
\* which raises TypeError.  response.json() raises on a body that is not
\* JSON.
get_api_answer(net) ==
    IF net.kind = "RequestException" THEN Raise("TypeError")
    ELSE IF net.code # HTTP_OK THEN Raise("InvalidResponseStatusException")
    ELSE IF net.body = NotJson THEN Raise("JSONDecodeError")
    ELSE Ok(net.body)

(* ---- initial state: the module has been imported ---- *)

Init ==
    /\ pc = "start"
    /\ PRACTICUM_TOKEN \in TokenValues
    /\ TELEGRAM_TOKEN \in TokenValues
    /\ TELEGRAM_CHAT_ID \in TokenValues
    /\ timestamp = Unbound
    /\ last_message = Unbound
    /\ response = Unbound
    /\ homeworks = Unbound
    /\ message = Unbound
    /\ error = NoError
    /\ errStage = "none"
    /\ fetched = "none"
    /\ status_code = 0
    /\ from_date = Unbound
    /\ last0 = Unbound
    /\ parsed = FALSE
    /\ sendResult = "none"
    /\ sent_text = Unbound
    /\ sleeps = 0
    /\ prevFirst = Unbound
    /\ prevSend = "none"
    /\ calls = <<>>
    /\ delivered = Unbound
    /\ prev2Sent = Unbound

(* ---- the steps of main ---- *)

\* main, up to the loop: the token check, then the bot, the cursor and the
\* empty last message.  The ValueError is not caught: the process ends.
Startup ==
    /\ pc = "start"
    /\ IF ~check_tokens
       THEN /\ pc' = "dead"
            /\ error' = "ValueError"
            /\ errStage' = "check_tokens"
            /\ UNCHANGED <<timestamp, last_message>>
       ELSE /\ pc' = "fetch"
            /\ timestamp' \in Clock
            /\ last_message' = PyStr("")
            /\ UNCHANGED <<error, errStage>>
    /\ UNCHANGED <<env, response, homeworks, message, fetched, status_code,
                   from_date, last0, parsed, sendResult, sent_text, sleeps,
                   prevFirst, prevSend, calls, delivered, prev2Sent>>

\* the bookkeeping of a new iteration of the loop
BeginCycle ==
    /\ from_date' = timestamp
    /\ last0' = last_message
    /\ parsed' = FALSE
    /\ sendResult' = "none"
    /\ sleeps' = 0
    /\ calls' = IF calls = <<>> \/ calls[Len(calls)] = "sleep"
                THEN <<"get_api_answer">>
                ELSE Append(calls, "get_api_answer")

\* response = get_api_answer(timestamp)
GetApiAnswer ==
    /\ pc = "fetch"
    /\ BeginCycle
    /\ \E net \in Network :
       LET res == get_api_answer(net) IN
       /\ fetched' = net.kind
       /\ status_code' = net.code
       /\ IF res.ok
          THEN /\ response' = res.val
               /\ error' = NoError
               /\ errStage' = "none"
               /\ pc' = "validate"
          ELSE /\ response' = Unbound
               /\ error' = res.err
               /\ errStage' = "get_api_answer"
               /\ pc' = "except"
    /\ UNCHANGED <<env, timestamp, last_message, homeworks, message, sent_text,
                   prevFirst, prevSend, delivered, prev2Sent>>

\* CheckResponse with the cursor assignment outside 'if homeworks:'
CheckResponse_CursorAlways ==
    /\ pc = "validate"
    /\ LET res == check_response(response) IN
       IF res.ok
       THEN /\ homeworks' = res.val
            /\ pc' = IF Truthy(res.val) THEN "interpret" ELSE "sleep"
            /\ timestamp' = IF Truthy(res.val) THEN timestamp
                            ELSE DictGet(response, "current_date")
            /\ UNCHANGED <<error, errStage>>
       ELSE /\ error' = res.err
            /\ errStage' = "check_response"
            /\ pc' = "except"
            /\ UNCHANGED <<homeworks, timestamp>>
    /\ calls' = Append(calls, "check_response")
    /\ UNCHANGED <<env, last_message, response, message, fetched,
                   status_code, from_date, last0, parsed, sendResult,
                   sent_text, sleeps, prevFirst, prevSend, delivered,
                   prev2Sent>>

\* homeworks = check_response(response); if homeworks:
CheckResponse ==
    /\ pc = "validate"
    /\ LET res == check_response(response) IN
       IF res.ok
       THEN /\ homeworks' = res.val
            /\ pc' = IF Truthy(res.val) THEN "interpret" ELSE "sleep"
            /\ UNCHANGED <<error, errStage>>
       ELSE /\ error' = res.err
            /\ errStage' = "check_response"
            /\ pc' = "except"
            /\ UNCHANGED homeworks
    /\ calls' = Append(calls, "check_response")
    /\ UNCHANGED <<env, timestamp, last_message, response, message, fetched,
                   status_code, from_date, last0, parsed, sendResult,
                   sent_text, sleeps, prevFirst, prevSend, delivered,
                   prev2Sent>>

\* the comparison that lets every message through
MessageChanged_Always(msg) == TRUE

\* a comparison with the message sent before the last one as well
MessageChanged_History(msg) == msg # last_message /\ msg # prev2Sent

\* last_message != message
MessageChanged(msg) == last_message # msg

\* ParseStatus that interprets the last record of the list
ParseStatus_LastRecord ==
    /\ pc = "interpret"
    /\ parsed' = TRUE
    /\ LET res == parse_status(homeworks.v[Len(homeworks.v)]) IN
       IF res.ok
       THEN /\ message' = PyStr(res.val)
            /\ pc' = IF MessageChanged(PyStr(res.val)) THEN "notify" ELSE "sleep"
            /\ UNCHANGED <<error, errStage>>
       ELSE /\ error' = res.err
            /\ errStage' = "parse_status"
            /\ pc' = "except"
            /\ UNCHANGED message
    /\ calls' = Append(calls, "parse_status")
    /\ UNCHANGED <<env, timestamp, last_message, response, homeworks, fetched,
                   status_code, from_date, last0, sendResult, sent_text,
                   sleeps, prevFirst, prevSend, delivered, prev2Sent>>

\* message = parse_status(homeworks[0]); if last_message != message:
ParseStatus ==
    /\ pc = "interpret"
    /\ parsed' = TRUE
    /\ LET res == parse_status(homeworks.v[1]) IN
       IF res.ok
       THEN /\ message' = PyStr(res.val)
            /\ pc' = IF MessageChanged(PyStr(res.val)) THEN "notify" ELSE "sleep"
            /\ UNCHANGED <<error, errStage>>
       ELSE /\ error' = res.err
            /\ errStage' = "parse_status"
            /\ pc' = "except"
            /\ UNCHANGED message
    /\ calls' = Append(calls, "parse_status")
    /\ UNCHANGED <<env, timestamp, last_message, response, homeworks, fetched,
                   status_code, from_date, last0, sendResult, sent_text,
                   sleeps, prevFirst, prevSend, delivered, prev2Sent>>

\* SendMessage with the cursor assigned before the send
SendMessage_CursorFirst ==
    /\ pc = "notify"
    /\ sent_text' = message
    /\ timestamp' = DictGet(response, "current_date")
    /\ \/ /\ sendResult' = "ok"
          /\ last_message' = message
          /\ pc' = "sleep"
          /\ UNCHANGED <<error, errStage>>
       \/ /\ sendResult' = "failed"
          /\ error' \in {"TelegramError", "TypeError"}
          /\ errStage' = "send_message"
          /\ pc' = "except"
          /\ UNCHANGED last_message
    /\ calls' = Append(calls, "send_message")
    /\ delivered' = IF sendResult' = "ok" THEN message ELSE delivered
    /\ UNCHANGED <<env, response, homeworks, message, fetched, status_code,
                   from_date, last0, parsed, sleeps, prevFirst, prevSend,
                   prev2Sent>>

\* SendMessage with last_message assigned before the send
SendMessage_LastMessageFirst ==
    /\ pc = "notify"
    /\ sent_text' = message
    /\ last_message' = message
    /\ \/ /\ sendResult' = "ok"
          /\ timestamp' = DictGet(response, "current_date")
          /\ pc' = "sleep"
          /\ UNCHANGED <<error, errStage>>
       \/ /\ sendResult' = "failed"
          /\ error' \in {"TelegramError", "TypeError"}
          /\ errStage' = "send_message"
          /\ pc' = "except"
          /\ UNCHANGED timestamp
    /\ calls' = Append(calls, "send_message")
    /\ delivered' = IF sendResult' = "ok" THEN message ELSE delivered
    /\ UNCHANGED <<env, response, homeworks, message, fetched, status_code,
                   from_date, last0, parsed, sleeps, prevFirst, prevSend,
                   prev2Sent>>

\* SendMessage that leaves the cursor where it was
SendMessage_NoCursor ==
    /\ pc = "notify"
    /\ sent_text' = message
    /\ \/ /\ sendResult' = "ok"
          /\ last_message' = message
          /\ pc' = "sleep"
          /\ UNCHANGED <<error, errStage>>
       \/ /\ sendResult' = "failed"
          /\ error' \in {"TelegramError", "TypeError"}
          /\ errStage' = "send_message"
          /\ pc' = "except"
          /\ UNCHANGED last_message
    /\ timestamp' = timestamp
    /\ calls' = Append(calls, "send_message")
    /\ delivered' = IF sendResult' = "ok" THEN message ELSE delivered
    /\ UNCHANGED <<env, response, homeworks, message, fetched, status_code,
                   from_date, last0, parsed, sleeps, prevFirst, prevSend,
                   prev2Sent>>

\* send_message(bot, message); last_message = message;
\* timestamp = response.get('current_date').
\* When bot.send_message raises TelegramError, send_message raises the
\* class TelegramError without arguments: the error main sees is a
\* TelegramError, or a TypeError where the class requires a message.
SendMessage ==
    /\ pc = "notify"
    /\ sent_text' = message
    /\ \/ /\ sendResult' = "ok"
          /\ last_message' = message
          /\ timestamp' = DictGet(response, "current_date")
          /\ pc' = "sleep"
          /\ UNCHANGED <<error, errStage>>
       \/ /\ sendResult' = "failed"
          /\ error' \in {"TelegramError", "TypeError"}
          /\ errStage' = "send_message"
          /\ pc' = "except"
          /\ UNCHANGED <<timestamp, last_message>>
    /\ calls' = Append(calls, "send_message")
    /\ delivered' = IF sendResult' = "ok" THEN message ELSE delivered
    /\ UNCHANGED <<env, response, homeworks, message, fetched, status_code,
                   from_date, last0, parsed, sleeps, prevFirst, prevSend,
                   prev2Sent>>

\* an except clause that raises the error again
Except_Reraise ==
    /\ pc = "except"
    /\ message' = PyStr("Sboi v rabote programmy: " \o error)
    /\ pc' = "dead"
    /\ UNCHANGED <<env, timestamp, last_message, response, homeworks, error,
                   errStage, fetched, status_code, from_date, last0, parsed,
                   sendResult, sent_text, sleeps, prevFirst, prevSend, calls,
                   delivered, prev2Sent>>

\* an except clause that starts the next iteration at once
Except_Retry ==
    /\ pc = "except"
    /\ message' = PyStr("Sboi v rabote programmy: " \o error)
    /\ pc' = "fetch"
    /\ UNCHANGED <<env, timestamp, last_message, response, homeworks, error,
                   errStage, fetched, status_code, from_date, last0, parsed,
                   sendResult, sent_text, sleeps, prevFirst, prevSend, calls,
                   delivered, prev2Sent>>

\* except Exception as error: message = f'...{error}'; logging.error(message)
Except ==
    /\ pc = "except"
    /\ message' = PyStr("Sboi v rabote programmy: " \o error)
    /\ pc' = "sleep"
    /\ UNCHANGED <<env, timestamp, last_message, response, homeworks, error,
                   errStage, fetched, status_code, from_date, last0, parsed,
                   sendResult, sent_text, sleeps, prevFirst, prevSend, calls,
                   delivered, prev2Sent>>

\* a loop that ends after its first sleep
Sleep_Break ==
    /\ pc = "sleep"
    /\ sleeps' = sleeps + 1
    /\ pc' = "dead"
    /\ prevFirst' = IF homeworks # Unbound /\ Len(homeworks.v) > 0
                    THEN homeworks.v[1] ELSE Unbound
    /\ prevSend' = sendResult
    /\ response' = Unbound
    /\ homeworks' = Unbound
    /\ message' = Unbound
    /\ sent_text' = Unbound
    /\ calls' = Append(calls, "sleep")
    /\ prev2Sent' = IF prevSend = "ok" THEN last0 ELSE Unbound
    /\ UNCHANGED <<env, timestamp, last_message, error, errStage, fetched,
                   status_code, from_date, last0, parsed, sendResult,
                   delivered>>

\* finally: time.sleep(RETRY_PERIOD), and the loop starts over.  The locals
\* response, homeworks and message are assigned before they are read in an
\* iteration, so the values of the iteration that ends are dropped here.
Sleep ==
    /\ pc = "sleep"
    /\ sleeps' = sleeps + 1
    /\ pc' = "fetch"
    /\ prevFirst' = IF homeworks # Unbound /\ Len(homeworks.v) > 0
                    THEN homeworks.v[1] ELSE Unbound
    /\ prevSend' = sendResult
    /\ response' = Unbound
    /\ homeworks' = Unbound
    /\ message' = Unbound
    /\ sent_text' = Unbound
    /\ calls' = Append(calls, "sleep")
    /\ prev2Sent' = IF prevSend = "ok" THEN last0 ELSE Unbound
    /\ UNCHANGED <<env, timestamp, last_message, error, errStage, fetched,
                   status_code, from_date, last0, parsed, sendResult,
                   delivered>>

Next ==
    \/ Startup
    \/ GetApiAnswer
    \/ CheckResponse
    \/ ParseStatus
    \/ SendMessage
    \/ Except
    \/ Sleep

Spec == Init /\ [][Next]_vars

\* main is one sequential thread: every call of the loop body returns or
\* raises and the sleep ends, so a step that is possible is taken
FairSpec == Spec /\ WF_vars(Next)

(* ---- properties ---- *)

\* main is inside its loop
InLoop == pc \notin {"start", "dead"}

\* homeworks[0] of a response that carries a non-empty homework list
FirstOf(r) ==
    IF /\ r # Unbound
       /\ IsDict(r)
       /\ HasKey(r, "homeworks")
       /\ IsList(r.v.homeworks)
       /\ Len(r.v.homeworks.v) > 0
    THEN r.v.homeworks.v[1]
    ELSE Unbound

\* the response of this cycle passed check_response
ValidResponse == homeworks # Unbound

\* C1: in the loop the cursor changes its value only in the step in which
\* send_message returned; and after a cycle that did not end in a successful
\* send, the next request carries the same from_date as this cycle's.
C1_CursorChangesOnlyAfterSend ==
    [][/\ (InLoop /\ timestamp' # timestamp)
            => (pc = "notify" /\ sendResult' = "ok")
       /\ (pc = "fetch" /\ from_date # Unbound /\ sendResult # "ok")
            => from_date' = from_date]_vars

\* a cycle whose send succeeded moved the cursor, after a cycle whose send
\* failed
C1_Witness ==
    /\ pc = "sleep"
    /\ sendResult = "ok"
    /\ prevSend = "failed"
    /\ timestamp # from_date

\* C2: when bot.send_message raises, the error reaches the loop boundary,
\* the cursor and the last sent message keep their values of the start of
\* the cycle, and the next request carries the same from_date.
C2_SinkFailureKeepsState ==
    [][/\ sendResult' = "failed"
            => /\ error' # NoError
               /\ errStage' = "send_message"
               /\ pc' \in {"except", "sleep", "fetch"}
               /\ timestamp' = from_date'
               /\ last_message' = last0'
       /\ (pc = "fetch" /\ sendResult = "failed")
            => (from_date' = from_date /\ last0' = last0)]_vars

\* the cycle after a failed send has made its request, and the failed
\* message was not the one sent last
C2_Witness ==
    /\ pc = "validate"
    /\ prevSend = "failed"
    /\ last_message # PyStr("")
    /\ from_date = timestamp

\* C3: an error raised by any call of the loop body is caught: the cycle
\* goes through the except clause to the sleep, the cursor and the last
\* sent message have their values of the start of the cycle, the process
\* stays in the loop and the sleep is followed by the next request.
C3_ErrorsCaughtAtLoopBoundary ==
    [][/\ (InLoop' /\ error' # NoError)
            => /\ pc' \in {"except", "sleep", "fetch"}
               /\ errStage' \in {"get_api_answer", "check_response",
                                 "parse_status", "send_message"}
               /\ timestamp' = from_date'
               /\ last_message' = last0'
       /\ (InLoop /\ error' # NoError /\ error = NoError) => pc' = "except"
       /\ pc = "except" => pc' = "sleep"
       /\ pc = "sleep" => pc' = "fetch"
       /\ InLoop => InLoop']_vars

\* a cycle that ended in an error of the send has slept and the loop is at
\* its next request
C3_Witness ==
    /\ pc = "fetch"
    /\ error # NoError
    /\ errStage = "send_message"
    /\ sleeps = 1

\* C4 as stated: when two consecutive cycles get valid responses with the
\* same first record, the second cycle sends nothing.
C4_SecondCycleNeverSends ==
    (/\ ValidResponse
     /\ prevFirst # Unbound
     /\ FirstOf(response) = prevFirst)
        => sendResult = "none"

\* C4, amended: when two consecutive cycles get valid responses with the
\* same first record and the send of the first cycle did not fail, the
\* second cycle sends nothing.
C4_SecondCycleSendsNothing ==
    (/\ ValidResponse
     /\ prevFirst # Unbound
     /\ FirstOf(response) = prevFirst
     /\ prevSend # "failed")
        => (sendResult = "none" /\ pc # "notify" /\ sent_text = Unbound)

\* the first cycle sent the message of the record, the second one got the
\* record again, interpreted it and is done
C4_Witness ==
    /\ pc = "sleep"
    /\ ValidResponse
    /\ FirstOf(response) = prevFirst
    /\ prevSend = "ok"
    /\ parsed
    /\ error = NoError
    /\ sendResult = "none"

\* C5: with one of the three secrets absent main ends before the loop, by
\* the ValueError: no request, no send, no sleep.
C5_MissingSecretIsFatal ==
    (\E tok \in {PRACTICUM_TOKEN, TELEGRAM_TOKEN, TELEGRAM_CHAT_ID} :
        tok = PyNone)
        => /\ pc \in {"start", "dead"}
           /\ pc = "dead" => (error = "ValueError" /\ errStage = "check_tokens")
           /\ fetched = "none"
           /\ from_date = Unbound
           /\ sendResult = "none"
           /\ sleeps = 0

\* main has ended with only the chat id absent
C5_Witness ==
    /\ pc = "dead"
    /\ Truthy(PRACTICUM_TOKEN)
    /\ Truthy(TELEGRAM_TOKEN)
    /\ TELEGRAM_CHAT_ID = PyNone

\* this cycle's response is valid and its homework list is empty
EmptyValidResponse ==
    /\ response # Unbound
    /\ check_response(response).ok
    /\ Len(response.v.homeworks.v) = 0

\* C6: in a cycle whose response is valid with an empty homework list,
\* nothing is sent, and the cursor and the last sent message keep their
\* values.
C6_EmptyListSendsNothing ==
    EmptyValidResponse
        => /\ pc \in {"validate", "sleep"}
           /\ ~parsed
           /\ sendResult = "none"
           /\ sent_text = Unbound
           /\ timestamp = from_date
           /\ last_message = last0
           /\ error = NoError

\* a cycle with a valid empty response is at its sleep, with a cursor that
\* differs from the response's current_date
C6_Witness ==
    /\ EmptyValidResponse
    /\ pc = "sleep"
    /\ response.v.current_date # timestamp

\* the record has a status that is none of the three status codes
StatusOutside(hw) ==
    /\ hw # Unbound
    /\ IsDict(hw)
    /\ HasKey(hw, "status")
    /\ ~(/\ hw.v.status.t = "str"
         /\ hw.v.status.v \in {"reviewing", "approved", "rejected"})

\* C7: when the first homework record of the response has a status outside
\* {reviewing, approved, rejected}, parse_status raises for it and nothing
\* is sent in the cycle.
C7_UnknownStatusSendsNothing ==
    StatusOutside(FirstOf(response))
        => /\ ~parse_status(FirstOf(response)).ok
           /\ sendResult = "none"
           /\ sent_text = Unbound
           /\ pc # "notify"
           /\ (ValidResponse /\ pc # "interpret")
                => (parsed /\ error # NoError /\ errStage = "parse_status")

\* parse_status has raised ValueError for a record with a name and an
\* unknown status
C7_Witness ==
    /\ StatusOutside(FirstOf(response))
    /\ HasKey(FirstOf(response), "homework_name")
    /\ pc = "sleep"
    /\ error = "ValueError"
    /\ errStage = "parse_status"

\* C8: a response with a status other than 200 makes get_api_answer raise
\* InvalidResponseStatusException, and a failed request makes it raise an
\* error that is not InvalidResponseStatusException.
C8_BadStatusIsDistinctError ==
    /\ (fetched = "response" /\ status_code # HTTP_OK)
        => /\ error = "InvalidResponseStatusException"
           /\ errStage = "get_api_answer"
    /\ fetched = "RequestException"
        => /\ error \notin {NoError, "InvalidResponseStatusException"}
           /\ errStage = "get_api_answer"

\* a cycle whose request got a 404
C8_Witness ==
    /\ fetched = "response"
    /\ status_code = 404
    /\ pc = "sleep"

\* this cycle's response has no 'current_date' key
LacksCurrentDate ==
    /\ response # Unbound
    /\ ~(IsDict(response) /\ HasKey(response, "current_date"))

\* C9: a response without the 'current_date' key fails check_response;
\* parse_status is not called and nothing is sent in that cycle.
C9_MissingDateFailsValidation ==
    LacksCurrentDate
        => /\ ~check_response(response).ok
           /\ ~ValidResponse
           /\ ~parsed
           /\ sendResult = "none"
           /\ sent_text = Unbound
           /\ pc \in {"validate", "except", "sleep"}
           /\ pc # "validate"
                => (error = "TypeError" /\ errStage = "check_response")

\* check_response has raised for a response that has a homework list with
\* an interpretable first record and no 'current_date'
C9_Witness ==
    /\ LacksCurrentDate
    /\ FirstOf(response) # Unbound
    /\ parse_status(FirstOf(response)).ok
    /\ pc = "sleep"
    /\ errStage = "check_response"

\* C10: after a successful send in a cycle whose valid response has a
\* first record named X with status approved, the text sent is the fixed
\* prefix with the quoted name followed by the verdict of approved, it is
\* the last sent message, and the cursor is the response's current_date.
C10_ApprovedRoundTrip ==
    (/\ sendResult = "ok"
     /\ IsDict(FirstOf(response))
     /\ DictGet(FirstOf(response), "homework_name") = PyStr("X")
     /\ DictGet(FirstOf(response), "status") = PyStr("approved"))
        => /\ sent_text = PyStr("Izmenilsya status proverki raboty \"X\". Rabota proverena: revyueru vsyo ponravilos. Ura!")
           /\ last_message = sent_text
           /\ last_message # last0
           /\ timestamp = DictGet(response, "current_date")

\* the message for X, approved, has been sent and the cursor moved to the
\* response's current_date
C10_Witness ==
    /\ pc = "sleep"
    /\ sendResult = "ok"
    /\ FirstOf(response) =
        PyDict([homework_name |-> PyStr("X"), status |-> PyStr("approved")])
    /\ response.v.current_date = PyInt(MaxDate)
    /\ from_date # PyInt(MaxDate)
    /\ timestamp = PyInt(MaxDate)

\* main ended at the token check, before the loop
StartupFailed == pc = "dead" /\ errStage = "check_tokens"

\* C11: the loop does not end by itself: unless main ended at the token
\* check, from every state the loop comes to the end of a sleep and from
\* every state it makes a new request, whatever the request, the
\* validation, the interpretation and the send do.
C11_LoopNeverTerminates ==
    /\ []<>(StartupFailed \/ (pc = "fetch" /\ sleeps = 1))
    /\ []<>(StartupFailed \/ (pc \in {"validate", "except"} /\ sleeps = 0))

\* a cycle that delivered a message has slept and the loop is at its next
\* request
C11_Witness ==
    /\ pc = "fetch"
    /\ sleeps = 1
    /\ sendResult = "ok"
    /\ calls[Len(calls)] = "sleep"

\* the clause of check_response's contract that a response violates first
ViolatedClause(r) ==
    IF ~IsDict(r) THEN "mapping"
    ELSE IF ~HasKey(r, "homeworks") \/ ~HasKey(r, "current_date") THEN "key"
    ELSE IF ~IsList(r.v.homeworks) THEN "list"
    ELSE "none"

\* this cycle's response was rejected by check_response
Rejected == errStage = "check_response" /\ response # Unbound

\* C12 as stated: the error check_response raises identifies the violated
\* clause: a response that violates another clause gets another error.
C12_ErrorIdentifiesClause ==
    Rejected
        => \A r \in Responses :
              (/\ ViolatedClause(r) # "none"
               /\ ViolatedClause(r) # ViolatedClause(response))
                  => check_response(r).err # error

\* C12, amended: check_response raises the same error, a TypeError, for
\* every violated clause; the error does not tell the clauses apart.
C12_OneErrorForAllClauses ==
    Rejected
        => /\ ViolatedClause(response) # "none"
           /\ error = "TypeError"
           /\ \A r \in Responses :
                 ViolatedClause(r) # "none"
                    => (~check_response(r).ok /\ check_response(r).err = error)

\* check_response has rejected a response with both keys whose homeworks
\* value is not a list
C12_Witness ==
    /\ Rejected
    /\ ViolatedClause(response) = "list"
    /\ pc = "sleep"

\* the record's name is missing or null
NameMissingOrNull(hw) ==
    /\ hw # Unbound
    /\ IsDict(hw)
    /\ (~HasKey(hw, "homework_name") \/ hw.v.homework_name = PyNone)

\* C13 as stated: for a first record whose name is missing or null
\* parse_status raises and nothing is sent in the cycle; a message is
\* produced only for a record with a non-null name and one of the three
\* status codes.
C13_NamelessRecordSendsNothing ==
    /\ NameMissingOrNull(FirstOf(response))
        => /\ ~parse_status(FirstOf(response)).ok
           /\ sendResult = "none"
           /\ pc # "notify"
    /\ (parsed /\ ValidResponse /\ errStage # "parse_status")
        => /\ ~NameMissingOrNull(FirstOf(response))
           /\ ~StatusOutside(FirstOf(response))

\* C14 as stated: inside the loop the cursor, and the from_date of every
\* request, is an integer.
C14_CursorIsInteger ==
    InLoop
        => /\ timestamp.t = "int"
           /\ from_date # Unbound => from_date.t = "int"

\* C15: the last sent message and the cursor are assigned together: the
\* step in which a send returned sets the last sent message to the message
\* sent and the cursor to the response's current_date, and no other step of
\* the loop changes either of them.
C15_CursorAndLastMessageTogether ==
    [][/\ (pc = "notify" /\ sendResult' = "ok")
            => /\ last_message' = message
               /\ last_message' # last_message
               /\ timestamp' = DictGet(response, "current_date")
       /\ (InLoop /\ ~(pc = "notify" /\ sendResult' = "ok"))
            => (last_message' = last_message /\ timestamp' = timestamp)
       /\ (from_date' # Unbound /\ sendResult' # "ok")
            => (last_message' = last0' /\ timestamp' = from_date')]_vars

\* a cycle that replaced an earlier message and moved the cursor
C15_Witness ==
    /\ pc = "sleep"
    /\ sendResult = "ok"
    /\ last0 # PyStr("")
    /\ last_message # last0
    /\ timestamp # from_date

\* how many times a call occurs in a sequence of calls
RECURSIVE Count(_, _)
Count(q, c) ==
    IF q = <<>> THEN 0
    ELSE (IF q[1] = c THEN 1 ELSE 0) + Count(SubSeq(q, 2, Len(q)), c)

\* C16: an iteration of the loop makes one request, at most one send and
\* one sleep, the sleep being its last call; so one sleep lies between two
\* consecutive requests, also after an error.
C16_NoRetryWithinCycle ==
    InLoop
        => /\ Count(calls, "send_message") <= 1
           /\ Count(calls, "sleep") <= 1
           /\ Count(calls, "check_response") <= 1
           /\ Count(calls, "parse_status") <= 1
           /\ pc # "fetch"
                => /\ Count(calls, "get_api_answer") = 1
                   /\ Count(calls, "sleep") = 0
                   /\ sleeps = 0
           /\ (pc = "fetch" /\ calls # <<>>)
                => /\ Count(calls, "get_api_answer") = 1
                   /\ Count(calls, "sleep") = 1
                   /\ calls[Len(calls)] = "sleep"
                   /\ sleeps = 1

\* a cycle whose interpretation raised has slept once and the loop is at
\* its next request
C16_Witness ==
    /\ pc = "fetch"
    /\ errStage = "parse_status"
    /\ calls = <<"get_api_answer", "check_response", "parse_status", "sleep">>

\* C17: a send happens in a cycle only as the fourth call, after the
\* request, the validation and the interpretation of that cycle returned
\* without an error, in this order, with a message that differs from the
\* last sent one.
C17_SendOnlyAfterAllStages ==
    (InLoop /\ Count(calls, "send_message") > 0)
        => /\ SubSeq(calls, 1, 4) = <<"get_api_answer", "check_response",
                                      "parse_status", "send_message">>
           /\ fetched = "response"
           /\ status_code = HTTP_OK
           /\ parsed
           /\ sendResult # "none"
           /\ errStage \in {"none", "send_message"}
           /\ pc # "fetch"
                => /\ check_response(response).ok
                   /\ parse_status(FirstOf(response)).ok
                   /\ sent_text = PyStr(parse_status(FirstOf(response)).val)
                   /\ sent_text # last0

\* a cycle has sent a message that replaces an earlier one
C17_Witness ==
    /\ pc = "sleep"
    /\ calls = <<"get_api_answer", "check_response", "parse_status",
                 "send_message">>
    /\ sendResult = "ok"
    /\ last0 # PyStr("")

\* the response with the same current_date and the first record only
FirstOnly(r) ==
    PyDict([homeworks |-> PyList(<<FirstOf(r)>>),
            current_date |-> r.v.current_date])

\* C18: the outcome of a cycle with a valid response is the outcome for
\* the response cut down to its first record: the same error or message,
\* the same decision to send, the same cursor and last sent message.  Two
\* responses that agree on the first record and on current_date are cut
\* down to the same response.
C18_OnlyFirstRecordInterpreted ==
    (/\ ValidResponse
     /\ FirstOf(response) # Unbound
     /\ pc \in {"notify", "except", "sleep"})
        => LET res == parse_status(check_response(FirstOnly(response)).val.v[1])
           IN  /\ parsed
               /\ res.ok <=> errStage # "parse_status"
               /\ ~res.ok => (error = res.err /\ sendResult = "none")
               /\ res.ok
                    => /\ (pc = "notify" \/ sendResult # "none")
                            <=> PyStr(res.val) # last0
                       /\ sendResult # "none" => sent_text = PyStr(res.val)
                       /\ sendResult = "ok"
                            => /\ last_message = PyStr(res.val)
                               /\ timestamp = FirstOnly(response).v.current_date
               /\ sendResult # "ok"
                    => (last_message = last0 /\ timestamp = from_date)

\* a message was sent for a response of two records whose second record
\* gives another message
C18_Witness ==
    /\ pc = "sleep"
    /\ sendResult = "ok"
    /\ Len(response.v.homeworks.v) > 1
    /\ parse_status(response.v.homeworks.v[2]).ok
    /\ PyStr(parse_status(response.v.homeworks.v[2]).val) # sent_text

\* C19: inside the loop the last sent message is the empty string while no
\* send has returned, and the text of the last send that returned after
\* that; it changes only in a step in which a send returned, to the text
\* sent.
C19_LastMessageIsLastDelivered ==
    [][/\ InLoop'
            => /\ delivered' = Unbound => last_message' = PyStr("")
               /\ delivered' # Unbound => last_message' = delivered'
       /\ (InLoop /\ last_message' # last_message)
            => /\ pc = "notify"
               /\ sendResult' = "ok"
               /\ last_message' = sent_text'
       /\ (pc = "notify" /\ sendResult' = "failed")
            => (last_message' = last_message /\ last_message' # sent_text')]_vars

\* a send has failed after an earlier send had returned
C19_Witness ==
    /\ pc = "sleep"
    /\ sendResult = "failed"
    /\ delivered # Unbound
    /\ last_message = delivered
    /\ sent_text # last_message

\* C20: a message that differs from the last sent one is sent, also when
\* it was sent two cycles ago (messages A, B, A in three cycles in a row
\* give three sends); and after a failed send, a cycle that gets the same
\* first record sends again.
C20_SuppressionUsesLastMessageOnly ==
    (ValidResponse /\ parsed /\ pc # "fetch")
        => LET res == parse_status(FirstOf(response)) IN
           /\ (/\ res.ok
               /\ prevSend = "ok"
               /\ prev2Sent = PyStr(res.val)
               /\ last0 # PyStr(res.val))
                  => /\ pc = "notify" \/ sendResult # "none"
                     /\ sendResult # "none" => sent_text = prev2Sent
           /\ (/\ res.ok
               /\ prevSend = "failed"
               /\ FirstOf(response) = prevFirst)
                  => (pc = "notify" \/ sendResult # "none")

\* the third of three cycles in a row has sent the message of the first
\* one again, after another message
C20_Witness ==
    /\ pc = "sleep"
    /\ sendResult = "ok"
    /\ prevSend = "ok"
    /\ prev2Sent = sent_text
    /\ last0 # sent_text
    /\ last0 # PyStr("")

====
